---- MODULE Spec2Model ----
(***************************************************************************)
(* Model of the ST7789V panel driver (samples/st7789v_driver.py), of the    *)
(* RGB565 pixel codec used by the sample programs, and of the animation    *)
(* helpers (samples/pil_animation_utils.py) driven by the frame loop of    *)
(* samples/test3.py.                                                       *)
(*                                                                         *)
(* The pigpio daemon is the environment.  Every call the driver makes on   *)
(* it (set_mode, write, spi_open, spi_write, spi_close, stop) is recorded  *)
(* as one event; `trace' holds the events of the most recent driver call.  *)
(* An SPI write may raise (transport fault): the fault is an input of the  *)
(* action, an index into the SPI writes the call performs.                 *)
(***************************************************************************)
EXTENDS Integers, Sequences, FiniteSets, TLC

VARIABLES
    pc,              \* position of the caller: start, body, exiting, done, init_failed, closed_after_failed_open
    exc,             \* exception in flight or surfaced to the caller ("none" when there is none)
    attrs,           \* names of the attributes assigned on the driver object so far
    _native_width, _native_height, width, height, _rotation,
    spi_handle,      \* self.spi_handle (meaningful when "spi_handle" \in attrs)
    _buffer,         \* self._buffer: <<>> models None / not allocated
    connected,       \* self.pi.connected
    gpio,            \* level of each output line as last driven
    handles,         \* SPI handles currently open at the daemon
    trace,           \* daemon calls made by the most recent driver call
    lastOp,          \* name of the most recent driver call
    args,            \* its arguments
    pre,             \* width, height, rotation and buffer as they were before it
    open_fault,      \* how the constructor ended
    numpy_available, \* _NUMPY_AVAILABLE
    img, out_bulk, out_scalar,  \* pixel codec: input block and the two encodings
    bbox1, bbox2,    \* merge_bboxes: the two arguments
    merged,          \* ... and the value returned
    merge_done,      \* ... once it has returned
    stage,           \* position in main() of test3: idle, display, update, draw, fps, pace
    ball,            \* the Ball object
    ball_before,     \* the Ball as it was before the latest call of the frame loop
    fps_counter,     \* the FpsCounter object
    elapsed_time, sleep_duration,   \* locals of the frame loop, in ticks
    slept,           \* the durations time.sleep was called with in the latest iteration
    calls,           \* driver methods called by the latest call of the frame loop
    panel_ball       \* panel pixels that show ball content

vars == <<pc, exc, attrs, _native_width, _native_height, width, height, _rotation,
          spi_handle, _buffer, connected, gpio, handles, trace, lastOp, args, pre,
          open_fault, numpy_available, img, out_bulk, out_scalar,
          bbox1, bbox2, merged, merge_done,
          stage, ball, ball_before, fps_counter, elapsed_time, sleep_duration,
          slept, calls, panel_ball>>

driverVars == <<pc, exc, attrs, _native_width, _native_height, width, height, _rotation,
                spi_handle, _buffer, connected, gpio, handles, trace, lastOp, args, pre,
                open_fault, numpy_available>>

codecVars == <<img, out_bulk, out_scalar>>

mergeVars == <<bbox1, bbox2, merged, merge_done>>

animVars == <<stage, ball, ball_before, fps_counter, elapsed_time, sleep_duration,
              slept, calls, panel_ball>>

----------------------------------------------------------------------------
(* Bounds of the model *)

\* write_pixels inputs span 0 .. MaxChunks full chunks (and one byte either side)
MaxChunks == 2

\* pixel blocks given to the codec and to display are at most MaxBlock pixels a side
MaxBlock == 2

\* rectangles given to merge_bboxes have their coordinates in 0 .. MaxCoord
MaxCoord == 2

\* balls have a radius of 1 .. MaxRadius pixels; the panel they move on is
\* 2 * MaxRadius + 1 pixels wide and 2 * MaxRadius pixels high
MaxRadius == 2

\* the FPS counter is redrawn after at most MaxFrames frames
MaxFrames == 2

----------------------------------------------------------------------------
(* Python integer operators on non-negative integers *)

RECURSIVE BitAnd(_, _)
BitAnd(a, b) ==
    IF a = 0 \/ b = 0 THEN 0
    ELSE (a % 2) * (b % 2) + 2 * BitAnd(a \div 2, b \div 2)

RECURSIVE BitOr(_, _)
BitOr(a, b) ==
    IF a = 0 THEN b
    ELSE IF b = 0 THEN a
    ELSE (IF a % 2 = 1 \/ b % 2 = 1 THEN 1 ELSE 0) + 2 * BitOr(a \div 2, b \div 2)

Shl(a, n) == a * (2 ^ n)

Shr(a, n) == a \div (2 ^ n)

Min(a, b) == IF a < b THEN a ELSE b

Max(a, b) == IF a > b THEN a ELSE b

\* range(0, n, step) of Python
Range(n, step) == [k \in 1..((n + step - 1) \div step) |-> (k - 1) * step]

\* s[i : j] of Python for 0 <= i (0-based, j exclusive, clipped to the length)
Slice(s, i, j) == SubSeq(s, i + 1, Min(j, Len(s)))

----------------------------------------------------------------------------
(* Command bytes and pins *)

CMD_SWRESET == 1
CMD_SLPOUT == 17
CMD_INVON == 33
CMD_DISPON == 41
CMD_CASET == 42
CMD_RASET == 43
CMD_RAMWR == 44
CMD_MADCTL == 54
CMD_COLMOD == 58
CMD_E0 == 224
CMD_E1 == 225

rst_pin == 19
dc_pin == 18
backlight_pin == 20

chunk_size == 4096

----------------------------------------------------------------------------
(* Calls on the pigpio daemon *)

PiSetMode(pin) == [op |-> "set_mode", pin |-> pin, level |-> 1, data |-> <<>>]

PiWrite(pin, level) == [op |-> "write", pin |-> pin, level |-> level, data |-> <<>>]

PiSpiOpen(h) == [op |-> "spi_open", pin |-> h, level |-> 0, data |-> <<>>]

PiSpiWrite(data) == [op |-> "spi_write", pin |-> 0, level |-> 0, data |-> data]

\* an spi_write that raised pigpio.error
PiSpiFault(data) == [op |-> "spi_fault", pin |-> 0, level |-> 0, data |-> data]

PiSpiClose(h) == [op |-> "spi_close", pin |-> h, level |-> 0, data |-> <<>>]

PiStop == [op |-> "stop", pin |-> 0, level |-> 0, data |-> <<>>]

\* number of SPI writes a sequence of calls performs
SpiCount(prog) == Cardinality({i \in 1..Len(prog) : prog[i].op = "spi_write"})

\* position of the k-th SPI write
NthSpi(prog, k) ==
    CHOOSE i \in 1..Len(prog) :
        /\ prog[i].op = "spi_write"
        /\ Cardinality({j \in 1..i : prog[j].op = "spi_write"}) = k

\* does the k-th SPI write exist (k = 0: no fault injected)
Faults(prog, k) == k \in 1..SpiCount(prog)

\* the calls actually made when the k-th SPI write raises: everything before
\* it, then the failed write; nothing after it
Run(prog, k) ==
    IF Faults(prog, k)
    THEN SubSeq(prog, 1, NthSpi(prog, k) - 1) \o <<PiSpiFault(prog[NthSpi(prog, k)].data)>>
    ELSE prog

\* level of a line after a sequence of calls
LevelAfter(old, pin, tr) ==
    LET W == {i \in 1..Len(tr) : tr[i].op = "write" /\ tr[i].pin = pin}
    IN  IF W = {} THEN old
        ELSE tr[CHOOSE i \in W : \A j \in W : j <= i].level

GpioAfter(old, tr) == [p \in DOMAIN old |-> LevelAfter(old[p], p, tr)]

----------------------------------------------------------------------------
(* ST7789V_Driver: framed writes *)

_write_command(command) == <<PiWrite(dc_pin, 0), PiSpiWrite(<<command>>)>>

\* mutant: the payload goes out without raising the data/command line
_write_data_line_not_set(data) == <<PiWrite(dc_pin, 0), PiSpiWrite(data)>>

\* data is a byte sequence; an int argument is wrapped in a one-element list
_write_data(data) == <<PiWrite(dc_pin, 1), PiSpiWrite(data)>>

\* mutant: the backlight comes on before the controller is reset and programmed
_init_display_backlight_first ==
       <<PiWrite(backlight_pin, 1)>>
    \o <<PiWrite(rst_pin, 1), PiWrite(rst_pin, 0), PiWrite(rst_pin, 1)>>
    \o _write_command(CMD_SWRESET)
    \o _write_command(CMD_SLPOUT)
    \o _write_command(CMD_COLMOD) \o _write_data(<<85>>)
    \o _write_command(178) \o _write_data(<<12, 12, 0, 51, 51>>)
    \o _write_command(183) \o _write_data(<<53>>)
    \o _write_command(187) \o _write_data(<<25>>)
    \o _write_command(192) \o _write_data(<<44>>)
    \o _write_command(194) \o _write_data(<<1, 255>>)
    \o _write_command(195) \o _write_data(<<17>>)
    \o _write_command(196) \o _write_data(<<32>>)
    \o _write_command(198) \o _write_data(<<15>>)
    \o _write_command(208) \o _write_data(<<164, 161>>)
    \o _write_command(CMD_E0)
    \o _write_data(<<208, 0, 2, 7, 10, 40, 50, 68, 66, 6, 14, 18, 20, 23, 0>>)
    \o _write_command(CMD_E1)
    \o _write_data(<<208, 0, 2, 7, 10, 40, 49, 84, 71, 14, 28, 23, 27, 27, 0>>)
    \o _write_command(CMD_INVON)
    \o _write_command(CMD_DISPON)

_init_display ==
       <<PiWrite(rst_pin, 1), PiWrite(rst_pin, 0), PiWrite(rst_pin, 1)>>
    \o _write_command(CMD_SWRESET)
    \o _write_command(CMD_SLPOUT)
    \o _write_command(CMD_COLMOD) \o _write_data(<<85>>)
    \o _write_command(178) \o _write_data(<<12, 12, 0, 51, 51>>)
    \o _write_command(183) \o _write_data(<<53>>)
    \o _write_command(187) \o _write_data(<<25>>)
    \o _write_command(192) \o _write_data(<<44>>)
    \o _write_command(194) \o _write_data(<<1, 255>>)
    \o _write_command(195) \o _write_data(<<17>>)
    \o _write_command(196) \o _write_data(<<32>>)
    \o _write_command(198) \o _write_data(<<15>>)
    \o _write_command(208) \o _write_data(<<164, 161>>)
    \o _write_command(CMD_E0)
    \o _write_data(<<208, 0, 2, 7, 10, 40, 50, 68, 66, 6, 14, 18, 20, 23, 0>>)
    \o _write_command(CMD_E1)
    \o _write_data(<<208, 0, 2, 7, 10, 40, 49, 84, 71, 14, 28, 23, 27, 27, 0>>)
    \o _write_command(CMD_INVON)
    \o _write_command(CMD_DISPON)
    \o <<PiWrite(backlight_pin, 1)>>

----------------------------------------------------------------------------
(* ST7789V_Driver: rotation, window, pixel stream *)

RotationValues == {0, 90, 180, 270}

\* mutant: the 270 degree branch sends the byte of the 90 degree branch
MadctlByte_270_as_90(rotation) ==
    CASE rotation = 0   -> 0
      [] rotation = 90  -> 96
      [] rotation = 180 -> 192
      [] rotation = 270 -> 96

\* the configuration byte each branch of set_rotation writes
MadctlByte(rotation) ==
    CASE rotation = 0   -> 0
      [] rotation = 90  -> 96
      [] rotation = 180 -> 192
      [] rotation = 270 -> 160

\* mutant: the 180 degree branch swaps the dimensions like its neighbours
RotatedSize_180_swapped(rotation, nw, nh) ==
    CASE rotation = 0   -> <<nw, nh>>
      [] rotation = 90  -> <<nh, nw>>
      [] rotation = 180 -> <<nh, nw>>
      [] rotation = 270 -> <<nh, nw>>

\* the (width, height) each branch of set_rotation assigns
RotatedSize(rotation, nw, nh) ==
    CASE rotation = 0   -> <<nw, nh>>
      [] rotation = 90  -> <<nh, nw>>
      [] rotation = 180 -> <<nw, nh>>
      [] rotation = 270 -> <<nh, nw>>

\* daemon calls of set_rotation: the command goes out before the value is
\* looked at; the else branch raises ValueError after it
set_rotation(rotation) ==
       _write_command(CMD_MADCTL)
    \o (IF rotation \in RotationValues THEN _write_data(<<MadctlByte(rotation)>>) ELSE <<>>)

\* bytearray(width * height * 2)
_init_buffer(w, h) == [i \in 1..(w * h * 2) |-> 0]

\* mutant: the rotation is stored before its value is looked at
set_rotation_attrs_stored_first(rotation, nw, nh, before) ==
    IF rotation \in RotationValues
    THEN [width    |-> RotatedSize(rotation, nw, nh)[1],
          height   |-> RotatedSize(rotation, nw, nh)[2],
          rotation |-> rotation,
          buffer   |-> _init_buffer(RotatedSize(rotation, nw, nh)[1],
                                    RotatedSize(rotation, nw, nh)[2])]
    ELSE [before EXCEPT !.rotation = rotation]

\* width, height, _rotation and _buffer as set_rotation leaves them when no
\* write fails: the matched branch assigns the size, then the rotation is
\* stored and the buffer reallocated; the else branch raises before any of it
set_rotation_attrs(rotation, nw, nh, before) ==
    IF rotation \in RotationValues
    THEN [width    |-> RotatedSize(rotation, nw, nh)[1],
          height   |-> RotatedSize(rotation, nw, nh)[2],
          rotation |-> rotation,
          buffer   |-> _init_buffer(RotatedSize(rotation, nw, nh)[1],
                                    RotatedSize(rotation, nw, nh)[2])]
    ELSE before

\* bytearray([...]) raises ValueError unless every element is in range(256)
IsBytes(s) == \A i \in 1..Len(s) : s[i] \in 0..255

\* mutant: low byte first
CoordBytes_little_endian(a, b) == <<BitAnd(a, 255), Shr(a, 8), BitAnd(b, 255), Shr(b, 8)>>

CoordBytes(a, b) == <<Shr(a, 8), BitAnd(a, 255), Shr(b, 8), BitAnd(b, 255)>>

\* does set_window raise ValueError while building a payload
set_window_raises(x0, y0, x1, y1) ==
    ~IsBytes(CoordBytes(x0, x1)) \/ ~IsBytes(CoordBytes(y0, y1))

\* daemon calls of set_window; a payload that cannot be built ends the call
\* after the command that precedes it
set_window(x0, y0, x1, y1) ==
    _write_command(CMD_CASET)
    \o (IF ~IsBytes(CoordBytes(x0, x1)) THEN <<>>
        ELSE _write_data(CoordBytes(x0, x1))
             \o _write_command(CMD_RASET)
             \o (IF ~IsBytes(CoordBytes(y0, y1)) THEN <<>>
                 ELSE _write_data(CoordBytes(y0, y1))
                      \o _write_command(CMD_RAMWR)))

\* mutant: the chunk slice ends one byte early
write_pixels_short_chunk(pixel_bytes) ==
    LET starts == Range(Len(pixel_bytes), chunk_size)
    IN  <<PiWrite(dc_pin, 1)>>
        \o [k \in 1..Len(starts) |->
               PiSpiWrite(Slice(pixel_bytes, starts[k], starts[k] + chunk_size - 1))]

\* daemon calls of write_pixels: data line high once, then one SPI write per chunk
write_pixels(pixel_bytes) ==
    LET starts == Range(Len(pixel_bytes), chunk_size)
    IN  <<PiWrite(dc_pin, 1)>>
        \o [k \in 1..Len(starts) |->
               PiSpiWrite(Slice(pixel_bytes, starts[k], starts[k] + chunk_size))]

\* daemon calls of close, given what __init__ got to assign
close(as, handle, conn) ==
       (IF "backlight_pin" \notin as THEN <<>>
        ELSE <<PiWrite(backlight_pin, 0)>>
             \o (IF "spi_handle" \in as /\ handle >= 0 THEN <<PiSpiClose(handle)>> ELSE <<>>))
    \o (IF conn THEN <<PiStop>> ELSE <<>>)

\* self.backlight_pin does not exist: AttributeError out of the try block
close_raises(as) == "backlight_pin" \notin as

HandlesAfter(old, tr) ==
    (old \cup {tr[i].pin : i \in {j \in 1..Len(tr) : tr[j].op = "spi_open" /\ tr[j].pin >= 0}})
    \ {tr[i].pin : i \in {j \in 1..Len(tr) : tr[j].op = "spi_close"}}

ConnectedAfter(old, tr) == old /\ \A i \in 1..Len(tr) : tr[i].op # "stop"

----------------------------------------------------------------------------
(* Pixel codec.  An image is a sequence of rows, a row a sequence of        *)
(* <<r, g, b>> pixels.                                                      *)

ImgH(image) == Len(image)

ImgW(image) == IF Len(image) = 0 THEN 0 ELSE Len(image[1])

U16(v) == v % 65536

\* mutant: green reduced to five bits
bulk_rgb565_green5(p) ==
    LET r == Shr(p[1], 3)
        g == Shr(p[2], 3)
        b == Shr(p[3], 3)
    IN  BitOr(BitOr(U16(Shl(r, 11)), U16(Shl(g, 5))), b)

\* numpy: (r << 11) | (g << 5) | b on uint16 values of r >> 3, g >> 2, b >> 3
bulk_rgb565(p) ==
    LET r == Shr(p[1], 3)
        g == Shr(p[2], 2)
        b == Shr(p[3], 3)
    IN  BitOr(BitOr(U16(Shl(r, 11)), U16(Shl(g, 5))), b)

\* ndarray.byteswap() on one uint16
byteswap(v) == U16(Shl(BitAnd(v, 255), 8)) + Shr(v, 8)

\* ndarray.tobytes() of one uint16 in native order (little-endian host)
tobytes(v) == <<BitAnd(v, 255), Shr(v, 8)>>

\* pil_to_rgb565_bytes, numpy version: C-order element k of the (h, w) array
pil_to_rgb565_bytes(image) ==
    [i \in 1..(2 * ImgW(image) * ImgH(image)) |->
        LET k == (i - 1) \div 2
            y == k \div ImgW(image)
            x == k % ImgW(image)
        IN  tobytes(byteswap(bulk_rgb565(image[y + 1][x + 1])))[((i - 1) % 2) + 1]]

\* the per-pixel expression of the scalar path
scalar_rgb565(p) ==
    BitOr(BitOr(Shl(BitAnd(p[1], 248), 8), Shl(BitAnd(p[2], 252), 3)), Shr(p[3], 3))

\* the scalar loops: for y in range(h): for x in range(w): append hi, append lo
RECURSIVE scalar_loop(_, _, _)
scalar_loop(image, y, x) ==
    IF y >= ImgH(image) THEN <<>>
    ELSE IF x >= ImgW(image) THEN scalar_loop(image, y + 1, 0)
    ELSE LET rgb565 == scalar_rgb565(image[y + 1][x + 1])
         IN  <<Shr(rgb565, 8), BitAnd(rgb565, 255)>> \o scalar_loop(image, y, x + 1)

pil_to_rgb565_bytes_scalar(image) == scalar_loop(image, 0, 0)

\* display: the conversion branch taken depends on _NUMPY_AVAILABLE
display_buffer(image, numpy) ==
    IF numpy THEN pil_to_rgb565_bytes(image) ELSE pil_to_rgb565_bytes_scalar(image)

\* daemon calls of display once the buffer is built
display(buf, w, h) == set_window(0, 0, w - 1, h - 1) \o write_pixels(buf)

----------------------------------------------------------------------------
(* Inputs *)

RotationInputs == RotationValues \cup {45}

NativeSizes == {<<w, h>> : w \in 1..MaxBlock, h \in 1..MaxBlock}

Palette == <<<<0, 0, 255>>, <<255, 255, 0>>, <<200, 220, 255>>, <<7, 3, 8>>, <<128, 100, 47>>>>

ImageSeeds == {0, 3}

TestImage(w, h, seed) ==
    [y \in 1..h |-> [x \in 1..w |-> Palette[(((y - 1) * w + (x - 1) + seed) % Len(Palette)) + 1]]]

PixelLengths ==
    {n \in {k * chunk_size + d : k \in 0..MaxChunks, d \in {-1, 0, 1}} : n >= 0}

\* the period of the pattern does not divide the chunk size
TestBytes(n) == [i \in 1..n |-> i % 251]

\* the inputs of write_pixels and the calls each leads to, by length
PixelInput == [n \in PixelLengths |-> TestBytes(n)]

PixelCalls == [n \in PixelLengths |-> write_pixels(PixelInput[n])]

WindowInputs ==
    {<<0, 0, 9, 9>>, <<0, 0, 319, 239>>, <<255, 256, 257, 300>>,
     <<0, 0, 65536, 9>>, <<0, 70000, 9, 9>>}

Snapshot == [width |-> width, height |-> height, rotation |-> _rotation, buffer |-> _buffer]

----------------------------------------------------------------------------
(* pil_animation_utils: bounding boxes *)

\* None, which `not bbox' treats like the empty tuple
None == <<>>

\* mutant: the top edge is taken with max
merge_bboxes_top_max(b1, b2) ==
    IF b1 = None THEN b2
    ELSE IF b2 = None THEN b1
    ELSE <<Min(b1[1], b2[1]), Max(b1[2], b2[2]), Max(b1[3], b2[3]), Max(b1[4], b2[4])>>

merge_bboxes(b1, b2) ==
    IF b1 = None THEN b2
    ELSE IF b2 = None THEN b1
    ELSE <<Min(b1[1], b2[1]), Min(b1[2], b2[2]), Max(b1[3], b2[3]), Max(b1[4], b2[4])>>

MergeIdle ==
    /\ bbox1 = None
    /\ bbox2 = None
    /\ merged = None
    /\ merge_done = FALSE

----------------------------------------------------------------------------
(* pil_animation_utils: Ball                                               *)
(*                                                                         *)
(* time.time() counts seconds; the model counts ticks of 1/TicksPerSecond  *)
(* second.  Speeds are in pixels per second as in the source, so that a    *)
(* position is held in units of 1/TicksPerSecond pixel and                 *)
(* x += speed_x * delta_t is exact.  The radius is a whole number of       *)
(* pixels.                                                                 *)

TicksPerSecond == 300

\* position units in one pixel
Px == TicksPerSecond

\* int() of Python on the quotient n / d, d > 0: rounds towards zero
Trunc(n, d) == IF n >= 0 THEN n \div d ELSE -((-n) \div d)

\* Ball.__init__
Ball(x, y, radius, speed_x, speed_y) ==
    [x |-> x, y |-> y, radius |-> radius, speed_x |-> speed_x, speed_y |-> speed_y,
     prev_bbox |-> None]

\* mutant: the left wall turns the ball round without putting it back
update_position_left_not_put_back(b, dt, screen_width, screen_height) ==
    LET r == b.radius * Px
        x1 == b.x + b.speed_x * dt
        y1 == b.y + b.speed_y * dt
        left == x1 - r < 0
        x2 == x1
        sx2 == IF left THEN -b.speed_x ELSE b.speed_x
        right == x2 + r >= screen_width * Px
        x3 == IF right THEN (screen_width - b.radius - 1) * Px ELSE x2
        sx3 == IF right THEN -sx2 ELSE sx2
        top == y1 - r < 0
        y2 == IF top THEN r ELSE y1
        sy2 == IF top THEN -b.speed_y ELSE b.speed_y
        bottom == y2 + r >= screen_height * Px
        y3 == IF bottom THEN (screen_height - b.radius - 1) * Px ELSE y2
        sy3 == IF bottom THEN -sy2 ELSE sy2
    IN  [b EXCEPT !.x = x3, !.y = y3, !.speed_x = sx3, !.speed_y = sy3]

\* Ball.update_position: the move, then the four wall tests in source order,
\* each on the values the tests before it left
update_position(b, dt, screen_width, screen_height) ==
    LET r == b.radius * Px
        x1 == b.x + b.speed_x * dt
        y1 == b.y + b.speed_y * dt
        left == x1 - r < 0
        x2 == IF left THEN r ELSE x1
        sx2 == IF left THEN -b.speed_x ELSE b.speed_x
        right == x2 + r >= screen_width * Px
        x3 == IF right THEN (screen_width - b.radius - 1) * Px ELSE x2
        sx3 == IF right THEN -sx2 ELSE sx2
        top == y1 - r < 0
        y2 == IF top THEN r ELSE y1
        sy2 == IF top THEN -b.speed_y ELSE b.speed_y
        bottom == y2 + r >= screen_height * Px
        y3 == IF bottom THEN (screen_height - b.radius - 1) * Px ELSE y2
        sy3 == IF bottom THEN -sy2 ELSE sy2
    IN  [b EXCEPT !.x = x3, !.y = y3, !.speed_x = sx3, !.speed_y = sy3]

\* Ball.get_bbox
get_bbox(b) ==
    LET r == b.radius * Px
    IN  <<Trunc(b.x - r, Px), Trunc(b.y - r, Px), Trunc(b.x + r, Px), Trunc(b.y + r, Px)>>

\* mutant: the region is the current box alone
draw_update_bbox_current_only(prev_bbox, curr_bbox, lcd_width, lcd_height) ==
    LET update_bbox == curr_bbox
    IN  IF update_bbox = None THEN None
        ELSE <<Max(0, update_bbox[1] - 1), Max(0, update_bbox[2] - 1),
               Min(lcd_width, update_bbox[3] + 1), Min(lcd_height, update_bbox[4] + 1)>>

\* mutant: the left and top edges are not held at zero
draw_update_bbox_unclamped(prev_bbox, curr_bbox, lcd_width, lcd_height) ==
    LET update_bbox == merge_bboxes(prev_bbox, curr_bbox)
    IN  IF update_bbox = None THEN None
        ELSE <<update_bbox[1] - 1, update_bbox[2] - 1,
               Min(lcd_width, update_bbox[3] + 1), Min(lcd_height, update_bbox[4] + 1)>>

\* Ball.draw: update_bbox, the merged box grown by one and clipped; it is the
\* box given to crop, its right and bottom edges exclusive
draw_update_bbox(prev_bbox, curr_bbox, lcd_width, lcd_height) ==
    LET update_bbox == merge_bboxes(prev_bbox, curr_bbox)
    IN  IF update_bbox = None THEN None
        ELSE <<Max(0, update_bbox[1] - 1), Max(0, update_bbox[2] - 1),
               Min(lcd_width, update_bbox[3] + 1), Min(lcd_height, update_bbox[4] + 1)>>

\* mutant: the right and bottom edges are passed on as they are
draw_window_exclusive(update_bbox) ==
    <<update_bbox[1], update_bbox[2], update_bbox[3], update_bbox[4]>>

\* Ball.draw: the arguments of lcd.set_window
draw_window(update_bbox) ==
    <<update_bbox[1], update_bbox[2], update_bbox[3] - 1, update_bbox[4] - 1>>

\* main: the background, row y filled with (y % 256, (y*2) % 256, (y*3) % 256)
background(w, h) ==
    [row \in 1..h |-> [col \in 1..w |->
        <<(row - 1) % 256, ((row - 1) * 2) % 256, ((row - 1) * 3) % 256>>]]

\* Image.crop(box): box[2] - box[0] by box[3] - box[1] pixels; those the box
\* takes from outside the image are black
crop(image, box) ==
    [row \in 1..(box[4] - box[2]) |-> [col \in 1..(box[3] - box[1]) |->
        LET x == box[1] + col - 1
            y == box[2] + row - 1
        IN  IF y \in 0..(ImgH(image) - 1) /\ x \in 0..(ImgW(image) - 1)
            THEN image[y + 1][x + 1]
            ELSE <<0, 0, 0>>]]

BALL_FILL_COLOR == <<255, 255, 0>>

\* ImageDraw.ellipse(xy, fill, outline): the shape is painted over the extent
\* xy[0] .. xy[2] by xy[1] .. xy[3], both ends included; the model colours the
\* whole extent that falls inside the image
ellipse(image, xy, fill) ==
    [row \in 1..Len(image) |-> [col \in 1..Len(image[row]) |->
        IF (col - 1) \in xy[1]..xy[3] /\ (row - 1) \in xy[2]..xy[4]
        THEN fill
        ELSE image[row][col]]]

\* Ball.draw: update_img with the ball painted in
draw_update_img(b, curr_bbox, update_bbox, bg_img) ==
    LET draw_x == curr_bbox[1] - update_bbox[1]
        draw_y == curr_bbox[2] - update_bbox[2]
    IN  ellipse(crop(bg_img, update_bbox),
                <<draw_x, draw_y, draw_x + b.radius * 2, draw_y + b.radius * 2>>,
                BALL_FILL_COLOR)

\* the two bytes of a pixel of the ball's colour
BallBytes == pil_to_rgb565_bytes(<<<<BALL_FILL_COLOR>>>>)

\* one driver method call
Call(name, arguments) == [name |-> name, args |-> arguments]

\* the driver methods a sample calls to send one image: set_window, then
\* write_pixels
SendCalls(window, pixel_bytes) ==
    <<Call("set_window", window), Call("write_pixels", <<pixel_bytes>>)>>

\* does a driver method call raise ValueError
Raises(c) ==
    /\ c.name = "set_window"
    /\ set_window_raises(c.args[1], c.args[2], c.args[3], c.args[4])

\* the daemon calls of a sequence of driver method calls; a call that raises
\* ends the sequence
RECURSIVE DaemonCalls(_)
DaemonCalls(cs) ==
    IF cs = <<>> THEN <<>>
    ELSE (IF cs[1].name = "set_window"
          THEN set_window(cs[1].args[1], cs[1].args[2], cs[1].args[3], cs[1].args[4])
          ELSE write_pixels(cs[1].args[1]))
         \o (IF Raises(cs[1]) THEN <<>> ELSE DaemonCalls(Tail(cs)))

\* Ball.draw: the driver method calls it makes
draw_calls(b, lcd_width, lcd_height, bg_img) ==
    LET curr_bbox == get_bbox(b)
        update_bbox == draw_update_bbox(b.prev_bbox, curr_bbox, lcd_width, lcd_height)
    IN  IF update_bbox = None THEN <<>>
        ELSE SendCalls(draw_window(update_bbox),
                       pil_to_rgb565_bytes(draw_update_img(b, curr_bbox, update_bbox, bg_img)))

\* the pixels (x, y) of an inclusive window
Pixels(x0, y0, x1, y1) == {<<x, y>> : x \in x0..x1, y \in y0..y1}

\* the panel pixels showing ball content once the panel has taken the calls:
\* a window is filled row by row by the pixel stream that follows it; a pixel
\* of the stream shows the ball when it has the ball's colour
RECURSIVE PanelAfter(_, _)
PanelAfter(shown, cs) ==
    IF Len(cs) < 2 THEN shown
    ELSE LET w == cs[1].args
             bytes == cs[2].args[1]
             cols == w[3] - w[1] + 1
             fill == BallBytes
             Nth(q) == (q[2] - w[2]) * cols + (q[1] - w[1])
             written == {q \in Pixels(w[1], w[2], w[3], w[4]) :
                            2 * Nth(q) + 2 <= Len(bytes)}
             painted == {q \in written :
                            <<bytes[2 * Nth(q) + 1], bytes[2 * Nth(q) + 2]>> = fill}
         IN  PanelAfter((shown \ written) \cup painted, SubSeq(cs, 3, Len(cs)))

----------------------------------------------------------------------------
(* pil_animation_utils: FpsCounter; test3: frame pacing *)

\* FpsCounter.__init__: the fixed box, from the padding and the size the font
\* gives the widest text
FpsCounter(padding, text_width, text_height) ==
    [bbox |-> <<padding, padding,
                padding + text_width + padding * 2,
                padding + text_height + padding * 2>>,
     frame_count |-> 0]

\* FpsCounter.update_and_draw, when the interval has passed: the driver method
\* calls it makes (the glyphs drawn over the background crop are not modelled)
update_and_draw_calls(f, bg_img) ==
    SendCalls(<<f.bbox[1], f.bbox[2], f.bbox[3] - 1, f.bbox[4] - 1>>,
              pil_to_rgb565_bytes(crop(bg_img, f.bbox)))

\* CONFIG.TARGET_FPS
TARGET_FPS == 30

\* target_duration = 1.0 / CONFIG.TARGET_FPS, in ticks
target_duration == TicksPerSecond \div TARGET_FPS

\* CONFIG.FPS_UPDATE_INTERVAL (0.2 s), in ticks
FPS_UPDATE_INTERVAL == TicksPerSecond \div 5

\* mutant: the test is sleep_duration >= 0
sleep_calls_when_not_negative(elapsed) ==
    LET duration == target_duration - elapsed
    IN  IF duration >= 0 THEN <<duration>> ELSE <<>>

\* the end of a loop iteration: the arguments time.sleep is called with
sleep_calls(elapsed) ==
    LET duration == target_duration - elapsed
    IN  IF duration > 0 THEN <<duration>> ELSE <<>>

AnimIdle ==
    /\ stage = "idle"
    /\ ball = Ball(0, 0, 0, 0, 0)
    /\ ball_before = Ball(0, 0, 0, 0, 0)
    /\ fps_counter = FpsCounter(0, 0, 0)
    /\ elapsed_time = 0
    /\ sleep_duration = 0
    /\ slept = <<>>
    /\ calls = <<>>
    /\ panel_ball = {}

----------------------------------------------------------------------------
(* The session: with ST7789V_Driver(...) as lcd: <body> *)

DriverInit ==
    /\ pc = "start"
    /\ exc = "none"
    /\ attrs = {}
    /\ _native_width = 0 /\ _native_height = 0
    /\ width = 0 /\ height = 0 /\ _rotation = 0
    /\ spi_handle = 0
    /\ _buffer = <<>>
    /\ connected = FALSE
    /\ gpio = [p \in {rst_pin, dc_pin, backlight_pin} |-> 0]
    /\ handles = {}
    /\ trace = <<>>
    /\ lastOp = "none"
    /\ args = <<>>
    /\ pre = [width |-> 0, height |-> 0, rotation |-> 0, buffer |-> <<>>]
    /\ open_fault = "none"

CodecIdle ==
    /\ img = <<>>
    /\ out_bulk = <<>>
    /\ out_scalar = <<>>

Init ==
    /\ DriverInit
    /\ numpy_available \in BOOLEAN
    /\ CodecIdle
    /\ MergeIdle
    /\ AnimIdle

\* attributes assigned before pigpio.pi() is consulted
AttrsBeforeConnect == {"_native_width", "_native_height", "width", "height", "_rotation", "pi"}

\* ... and between the connection check and spi_open
AttrsBeforeSpiOpen == AttrsBeforeConnect \cup {"rst_pin", "dc_pin", "backlight_pin"}

SetModes == <<PiSetMode(rst_pin), PiSetMode(dc_pin), PiSetMode(backlight_pin)>>

\* __init__ when the daemon is not running: RuntimeError right after pigpio.pi()
OpenNotConnected(w, h, rotation) ==
    /\ attrs' = AttrsBeforeConnect
    /\ connected' = FALSE
    /\ trace' = <<>>
    /\ exc' = "RuntimeError"
    /\ open_fault' = "not_connected"
    /\ UNCHANGED <<spi_handle, _buffer>>

\* __init__ when spi_open does not yield a handle: it raises pigpio.error, or
\* (pigpio.exceptions off) returns a negative code and __init__ raises RuntimeError
OpenNoHandle(w, h, rotation, raised) ==
    /\ attrs' = AttrsBeforeSpiOpen \cup (IF raised THEN {} ELSE {"spi_handle"})
    /\ connected' = TRUE
    /\ trace' = SetModes \o <<PiSpiOpen(-1)>>
    /\ spi_handle' = IF raised THEN spi_handle ELSE -1
    /\ exc' = IF raised THEN "pigpio.error" ELSE "RuntimeError"
    /\ open_fault' = IF raised THEN "spi_open_raise" ELSE "spi_open_negative"
    /\ UNCHANGED _buffer

\* the calls __init__ makes once it holds the handle
InitCalls(rotation) == _init_display \o set_rotation(rotation)

\* __init__ with the bus acquired; the k-th SPI write raises (k = 0: none does)
OpenWithHandle(w, h, rotation, k) ==
    LET prog == InitCalls(rotation)
        ok == ~Faults(prog, k) /\ rotation \in RotationValues
    IN  /\ attrs' = AttrsBeforeSpiOpen \cup {"spi_handle", "_buffer"}
        /\ connected' = TRUE
        /\ trace' = SetModes \o <<PiSpiOpen(0)>> \o Run(prog, k)
        /\ spi_handle' = 0
        /\ _buffer' = IF ok THEN _init_buffer(RotatedSize(rotation, w, h)[1],
                                              RotatedSize(rotation, w, h)[2])
                      ELSE <<>>
        /\ exc' = IF Faults(prog, k) THEN "pigpio.error"
                  ELSE IF rotation \notin RotationValues THEN "ValueError"
                  ELSE "none"
        /\ open_fault' = IF Faults(prog, k) THEN "spi_write"
                         ELSE IF rotation \notin RotationValues THEN "rotation"
                         ELSE "none"

\* ST7789V_Driver(width=w, height=h, rotation=rotation)
Open ==
    /\ pc = "start"
    /\ \E size \in NativeSizes, rotation \in RotationInputs :
        /\ \/ OpenNotConnected(size[1], size[2], rotation)
           \/ \E raised \in BOOLEAN : OpenNoHandle(size[1], size[2], rotation, raised)
           \/ \E k \in 0..SpiCount(InitCalls(rotation)) :
                  OpenWithHandle(size[1], size[2], rotation, k)
        /\ _native_width' = size[1]
        /\ _native_height' = size[2]
        /\ LET ok == open_fault' = "none"
               dims == IF ok THEN RotatedSize(rotation, size[1], size[2]) ELSE size
           IN  /\ width' = dims[1]
               /\ height' = dims[2]
               /\ pc' = IF ok THEN "body" ELSE "init_failed"
        /\ _rotation' = rotation
        /\ args' = <<size[1], size[2], rotation>>
    /\ gpio' = GpioAfter(gpio, trace')
    /\ handles' = HandlesAfter(handles, trace')
    /\ lastOp' = "open"
    /\ pre' = Snapshot
    /\ UNCHANGED <<numpy_available, codecVars, mergeVars, animVars>>

\* what every call made in the body does to the bookkeeping
Called(name, arguments, tr, error) ==
    /\ pc = "body"
    /\ trace' = tr
    /\ gpio' = GpioAfter(gpio, tr)
    /\ exc' = error
    /\ pc' = IF error = "none" THEN "body" ELSE "exiting"
    /\ lastOp' = name
    /\ args' = arguments
    /\ pre' = Snapshot
    /\ UNCHANGED <<attrs, _native_width, _native_height, spi_handle, connected, handles,
                   open_fault, numpy_available, codecVars, mergeVars>>

\* lcd.set_rotation(rotation)
SetRotation ==
    \E rotation \in RotationInputs :
      \E k \in 0..SpiCount(set_rotation(rotation)) :
        LET prog == set_rotation(rotation)
        IN  /\ Called("set_rotation", <<rotation>>, Run(prog, k),
                      IF Faults(prog, k) THEN "pigpio.error"
                      ELSE IF rotation \notin RotationValues THEN "ValueError"
                      ELSE "none")
            /\ LET after == IF Faults(prog, k) THEN Snapshot
                            ELSE set_rotation_attrs(rotation, _native_width,
                                                    _native_height, Snapshot)
               IN  /\ width' = after.width
                   /\ height' = after.height
                   /\ _rotation' = after.rotation
                   /\ _buffer' = after.buffer
            /\ UNCHANGED animVars

\* lcd.set_window(x0, y0, x1, y1)
SetWindow ==
    \E w \in WindowInputs :
      \E k \in 0..SpiCount(set_window(w[1], w[2], w[3], w[4])) :
        LET prog == set_window(w[1], w[2], w[3], w[4])
        IN  /\ Called("set_window", w, Run(prog, k),
                      IF Faults(prog, k) THEN "pigpio.error"
                      ELSE IF set_window_raises(w[1], w[2], w[3], w[4]) THEN "ValueError"
                      ELSE "none")
            /\ UNCHANGED <<width, height, _rotation, _buffer, animVars>>

\* lcd.write_pixels(pixel_bytes)
WritePixels ==
    \E n \in PixelLengths :
      \E k \in 0..SpiCount(PixelCalls[n]) :
        LET prog == PixelCalls[n]
        IN  /\ Called("write_pixels", <<PixelInput[n]>>, Run(prog, k),
                      IF Faults(prog, k) THEN "pigpio.error" ELSE "none")
            /\ UNCHANGED <<width, height, _rotation, _buffer, animVars>>

\* lcd.display(image) for an RGB image of the panel's size
Display ==
    \E seed \in ImageSeeds :
      LET image == TestImage(width, height, seed)
          buf == display_buffer(image, numpy_available)
          prog == display(buf, width, height)
      IN  \E k \in 0..SpiCount(prog) :
            /\ Called("display", <<image>>, Run(prog, k),
                      IF Faults(prog, k) THEN "pigpio.error" ELSE "none")
            /\ _buffer' = buf
            /\ UNCHANGED <<width, height, _rotation, animVars>>

\* KeyboardInterrupt delivered between two calls of the body
Interrupt ==
    /\ Called("interrupt", <<>>, <<>>, "KeyboardInterrupt")
    /\ UNCHANGED <<width, height, _rotation, _buffer, animVars>>

\* the body runs to its end
EndOfBody ==
    /\ pc = "body"
    /\ pc' = "exiting"
    /\ lastOp' = "end"
    /\ args' = <<>>
    /\ trace' = <<>>
    /\ exc' = "none"
    /\ pre' = Snapshot
    /\ UNCHANGED <<attrs, _native_width, _native_height, width, height, _rotation,
                   spi_handle, _buffer, connected, gpio, handles, open_fault,
                   numpy_available, codecVars, mergeVars, animVars>>

\* self.close() and what it leaves behind
Closing(next, pending) ==
    /\ trace' = close(attrs, spi_handle, connected)
    /\ gpio' = GpioAfter(gpio, trace')
    /\ handles' = HandlesAfter(handles, trace')
    /\ connected' = ConnectedAfter(connected, trace')
    /\ exc' = IF close_raises(attrs) THEN "AttributeError" ELSE pending
    /\ pc' = next
    /\ lastOp' = "close"
    /\ args' = <<>>
    /\ pre' = Snapshot
    /\ UNCHANGED <<attrs, _native_width, _native_height, width, height, _rotation,
                   spi_handle, _buffer, open_fault, numpy_available, codecVars,
                   mergeVars, animVars>>

\* __exit__: runs close(), then the exception (if any) goes on to the caller
Exit ==
    /\ pc = "exiting"
    /\ Closing("done", exc)

\* close() called on an object whose __init__ raised (the caller has caught
\* that error; exc is what close() itself raises)
CloseAfterFailedOpen ==
    /\ pc = "init_failed"
    /\ Closing("closed_after_failed_open", "none")

Next ==
    \/ Open
    \/ SetRotation
    \/ SetWindow
    \/ WritePixels
    \/ Display
    \/ Interrupt
    \/ EndOfBody
    \/ Exit
    \/ CloseAfterFailedOpen

Spec == Init /\ [][Next]_vars

----------------------------------------------------------------------------
(* The pixel codec on its own: one block, encoded by both paths *)

ChannelSamples == {0, 1, 3, 4, 7, 8, 127, 128, 247, 248, 251, 252, 255}

CodecImages ==
         {<<<<<<r, g, b>>>>>> : r \in ChannelSamples, g \in ChannelSamples, b \in ChannelSamples}
    \cup {TestImage(w, h, seed) : w \in 1..MaxBlock, h \in 1..MaxBlock, seed \in ImageSeeds}

CodecInit ==
    /\ DriverInit
    /\ numpy_available = TRUE
    /\ img \in CodecImages
    /\ out_bulk = <<>>
    /\ out_scalar = <<>>
    /\ MergeIdle
    /\ AnimIdle

\* pil_animation_utils.pil_to_rgb565_bytes(img)
EncodeBulk ==
    /\ out_bulk = <<>>
    /\ out_bulk' = pil_to_rgb565_bytes(img)
    /\ UNCHANGED <<img, out_scalar, driverVars, mergeVars, animVars>>

\* eyes1.pil_to_rgb565_bytes(img)
EncodeScalar ==
    /\ out_scalar = <<>>
    /\ out_scalar' = pil_to_rgb565_bytes_scalar(img)
    /\ UNCHANGED <<img, out_bulk, driverVars, mergeVars, animVars>>

CodecNext ==
    \/ EncodeBulk
    \/ EncodeScalar

SpecCodec == CodecInit /\ [][CodecNext]_vars

----------------------------------------------------------------------------
(* merge_bboxes on its own: two boxes (or None), merged once *)

\* (x0, y0, x1, y1) with x0 <= x1 and y0 <= y1
Rectangles ==
    {r \in {<<x0, y0, x1, y1>> : x0 \in 0..MaxCoord, y0 \in 0..MaxCoord,
                                  x1 \in 0..MaxCoord, y1 \in 0..MaxCoord} :
        r[1] <= r[3] /\ r[2] <= r[4]}

MergeInit ==
    /\ DriverInit
    /\ numpy_available = TRUE
    /\ CodecIdle
    /\ AnimIdle
    /\ bbox1 \in Rectangles \cup {None}
    /\ bbox2 \in Rectangles \cup {None}
    /\ merged = None
    /\ merge_done = FALSE

\* merge_bboxes(bbox1, bbox2)
Merge ==
    /\ ~merge_done
    /\ merged' = merge_bboxes(bbox1, bbox2)
    /\ merge_done' = TRUE
    /\ UNCHANGED <<bbox1, bbox2, driverVars, codecVars, animVars>>

MergeNext == Merge

SpecMerge == MergeInit /\ [][MergeNext]_vars

----------------------------------------------------------------------------
(* main() of test3: the background, then the frame loop *)

\* ST7789V_Driver(width=..., height=...) with the default rotation of 90
AnimNative == <<2 * MaxRadius, 2 * MaxRadius + 1>>

Radii == 1..MaxRadius

\* positions half a pixel apart, from lo to hi pixels
HalfPixels(lo, hi) == {p \in (lo * Px)..(hi * Px) : p % (Px \div 2) = 0}

\* (speed_x, speed_y) in pixels per second
Velocities == {<<30, -60>>, <<-60, 0>>, <<0, 30>>}

\* frame_start_time - last_frame_time, in ticks: nothing, half a frame, a
\* frame, a second
DeltaTs == {0, target_duration \div 2, target_duration, TicksPerSecond}

\* time.time() - frame_start_time at the end of an iteration, in ticks: 10 ms,
\* a tick short of the target, the target, half a frame over
ElapsedTimes ==
    {TicksPerSecond \div 100, target_duration - 1, target_duration,
     target_duration + target_duration \div 2}

\* current_time - last_update_time in update_and_draw, in ticks
FpsElapsed == {FPS_UPDATE_INTERVAL - 1, FPS_UPDATE_INTERVAL}

\* the state ST7789V_Driver(...) leaves when nothing fails
Opened(nw, nh, rotation) ==
    /\ pc = "body"
    /\ exc = "none"
    /\ attrs = AttrsBeforeSpiOpen \cup {"spi_handle", "_buffer"}
    /\ _native_width = nw /\ _native_height = nh
    /\ width = RotatedSize(rotation, nw, nh)[1]
    /\ height = RotatedSize(rotation, nw, nh)[2]
    /\ _rotation = rotation
    /\ spi_handle = 0
    /\ _buffer = _init_buffer(RotatedSize(rotation, nw, nh)[1], RotatedSize(rotation, nw, nh)[2])
    /\ connected = TRUE
    /\ trace = SetModes \o <<PiSpiOpen(0)>> \o InitCalls(rotation)
    /\ gpio = GpioAfter([p \in {rst_pin, dc_pin, backlight_pin} |-> 0], trace)
    /\ handles = {0}
    /\ lastOp = "open"
    /\ args = <<nw, nh, rotation>>
    /\ pre = [width |-> 0, height |-> 0, rotation |-> 0, buffer |-> <<>>]
    /\ open_fault = "none"

AnimInit ==
    /\ Opened(AnimNative[1], AnimNative[2], 90)
    /\ numpy_available = TRUE
    /\ CodecIdle
    /\ MergeIdle
    /\ stage = "display"
    /\ \E radius \in Radii, v \in Velocities :
         \E x \in HalfPixels(radius, AnimNative[2] - radius),
            y \in HalfPixels(radius, AnimNative[1] - radius) :
              /\ ball = Ball(x, y, radius, v[1], v[2])
              /\ ball_before = ball
    /\ fps_counter = FpsCounter(1, 1, 1)
    /\ elapsed_time = 0
    /\ sleep_duration = 0
    /\ slept = <<>>
    /\ calls = <<>>
    /\ panel_ball = {}

\* bg_img of main
bg_img == background(width, height)

\* a call made by main and the driver methods cs it calls in turn.  Every SPI
\* write succeeds here: what a failing write does to a driver call and to the
\* session is explored in Spec.
Sent(name, cs) ==
    /\ Called(name, <<>>, DaemonCalls(cs),
              IF \E i \in 1..Len(cs) : Raises(cs[i]) THEN "ValueError" ELSE "none")
    /\ calls' = IF \E i \in 1..Len(cs) : Raises(cs[i])
                THEN SubSeq(cs, 1, CHOOSE i \in 1..Len(cs) :
                                       Raises(cs[i]) /\ \A j \in 1..(i - 1) : ~Raises(cs[j]))
                ELSE cs
    /\ panel_ball' = IF \E i \in 1..Len(cs) : Raises(cs[i]) THEN panel_ball
                     ELSE PanelAfter(panel_ball, cs)
    /\ UNCHANGED <<width, height, _rotation>>

\* lcd.display(bg_img)
AnimDisplay ==
    /\ stage = "display"
    /\ LET buf == display_buffer(bg_img, numpy_available)
       IN  /\ Sent("display", SendCalls(<<0, 0, width - 1, height - 1>>, buf))
           /\ _buffer' = buf
    /\ stage' = "update"
    /\ ball_before' = ball
    /\ UNCHANGED <<ball, fps_counter, elapsed_time, sleep_duration, slept>>

\* the start of an iteration and ball.update_position(delta_t, lcd.width, lcd.height)
UpdatePosition ==
    /\ stage = "update"
    /\ \E dt \in DeltaTs :
        /\ Called("update_position", <<dt, width, height>>, <<>>, "none")
        /\ ball' = update_position(ball, dt, width, height)
    /\ ball_before' = ball
    /\ elapsed_time' = 0
    /\ sleep_duration' = 0
    /\ slept' = <<>>
    /\ calls' = <<>>
    /\ stage' = "draw"
    /\ UNCHANGED <<width, height, _rotation, _buffer, fps_counter, panel_ball>>

\* ball.draw(lcd, bg_img)
Draw ==
    /\ stage = "draw"
    /\ Sent("draw", draw_calls(ball, width, height, bg_img))
    /\ ball' = IF exc' = "none" THEN [ball EXCEPT !.prev_bbox = get_bbox(ball)] ELSE ball
    /\ stage' = "fps"
    /\ ball_before' = ball
    /\ UNCHANGED <<_buffer, fps_counter, elapsed_time, sleep_duration, slept>>

\* fps_counter.update_and_draw(lcd)
UpdateAndDraw ==
    /\ stage = "fps"
    /\ \E elapsed \in FpsElapsed :
        /\ fps_counter.frame_count + 1 < MaxFrames \/ elapsed >= FPS_UPDATE_INTERVAL
        /\ IF elapsed >= FPS_UPDATE_INTERVAL
           THEN /\ Sent("update_and_draw", update_and_draw_calls(fps_counter, bg_img))
                /\ fps_counter' = [fps_counter EXCEPT !.frame_count =
                                      IF exc' = "none" THEN 0 ELSE @ + 1]
           ELSE /\ Sent("update_and_draw", <<>>)
                /\ fps_counter' = [fps_counter EXCEPT !.frame_count = @ + 1]
    /\ stage' = "pace"
    /\ ball_before' = ball
    /\ UNCHANGED <<_buffer, ball, elapsed_time, sleep_duration, slept>>

\* the end of an iteration: elapsed_time, sleep_duration, time.sleep
Pace ==
    /\ stage = "pace"
    /\ \E elapsed \in ElapsedTimes :
        /\ Called("pace", <<>>, <<>>, "none")
        /\ elapsed_time' = elapsed
        /\ sleep_duration' = target_duration - elapsed
        /\ slept' = sleep_calls(elapsed)
    /\ calls' = <<>>
    /\ stage' = "update"
    /\ ball_before' = ball
    /\ UNCHANGED <<width, height, _rotation, _buffer, ball, fps_counter, panel_ball>>

AnimNext ==
    \/ AnimDisplay
    \/ UpdatePosition
    \/ Draw
    \/ UpdateAndDraw
    \/ Pace
    \/ Interrupt
    \/ Exit

SpecAnim == AnimInit /\ [][AnimNext]_vars

----------------------------------------------------------------------------
(* Properties *)

\* first position of an event in a sequence of daemon calls (0: absent)
FirstIndex(tr, e) ==
    IF \E i \in 1..Len(tr) : tr[i] = e
    THEN CHOOSE i \in 1..Len(tr) : tr[i] = e /\ \A j \in 1..(i - 1) : tr[j] # e
    ELSE 0

Occurrences(tr, e) == Cardinality({i \in 1..Len(tr) : tr[i] = e})

OpenSucceeded == lastOp = "open" /\ pc = "body"

\* C1: on every exit path of a session (normal completion, interrupt, error in
\* a later transfer, error inside open after the bus was acquired) the
\* backlight line is low and no SPI handle is left open when the exit or the
\* error reaches the caller.
C1_ReleasedOnEveryExit ==
    pc \in {"done", "init_failed"} => (gpio[backlight_pin] = 0 /\ handles = {})

\* C2: set_rotation with a value other than 0, 90, 180, 270 fails with an
\* invalid-argument error and has made no daemon call (no D/C write, no SPI
\* write) when the error is raised.
C2_InvalidRotationNoIO ==
    (lastOp = "set_rotation" /\ exc = "ValueError")
        => (args[1] \notin RotationValues /\ trace = <<>>)

\* C3: once the driver is open, (width, height) is the native size when the
\* stored rotation is 0 or 180 and the swapped native size when it is 90 or
\* 270, whatever set_rotation calls were made; the stored rotation is never
\* paired with the size of another rotation.
C3_SizeFollowsRotation ==
    pc \in {"body", "exiting", "done"} =>
        /\ _rotation \in RotationValues
        /\ _rotation \in {0, 180} => (width = _native_width /\ height = _native_height)
        /\ _rotation \in {90, 270} => (width = _native_height /\ height = _native_width)

\* set_rotation(0) right after rotation 90 on a non-square panel: the size is
\* back to the native one
C3_Witness ==
    /\ lastOp = "set_rotation" /\ pc = "body"
    /\ pre.rotation = 90 /\ _rotation = 0
    /\ _native_width # _native_height
    /\ pre.width = _native_height /\ pre.height = _native_width
    /\ width = _native_width /\ height = _native_height

\* the fixed initialization sequence: command byte, payload
InitTable ==
    <<<<1, <<>>>>, <<17, <<>>>>, <<58, <<85>>>>,
      <<178, <<12, 12, 0, 51, 51>>>>, <<183, <<53>>>>, <<187, <<25>>>>,
      <<192, <<44>>>>, <<194, <<1, 255>>>>, <<195, <<17>>>>, <<196, <<32>>>>,
      <<198, <<15>>>>, <<208, <<164, 161>>>>,
      <<224, <<208, 0, 2, 7, 10, 40, 50, 68, 66, 6, 14, 18, 20, 23, 0>>>>,
      <<225, <<208, 0, 2, 7, 10, 40, 49, 84, 71, 14, 28, 23, 27, 27, 0>>>>,
      <<33, <<>>>>, <<41, <<>>>>>>

\* a table entry on the wire: line low, command byte; line high, payload
RECURSIVE Framed(_)
Framed(t) ==
    IF t = <<>> THEN <<>>
    ELSE    <<[op |-> "write", pin |-> 18, level |-> 0, data |-> <<>>],
              [op |-> "spi_write", pin |-> 0, level |-> 0, data |-> <<Head(t)[1]>>]>>
         \o (IF Len(Head(t)[2]) = 0 THEN <<>>
             ELSE <<[op |-> "write", pin |-> 18, level |-> 1, data |-> <<>>],
                    [op |-> "spi_write", pin |-> 0, level |-> 0, data |-> Head(t)[2]]>>)
         \o Framed(Tail(t))

ResetPulse ==
    <<[op |-> "write", pin |-> 19, level |-> 1, data |-> <<>>],
      [op |-> "write", pin |-> 19, level |-> 0, data |-> <<>>],
      [op |-> "write", pin |-> 19, level |-> 1, data |-> <<>>]>>

\* the calls of an open on the reset line, the D/C line and the bus
PanelTraffic(tr) ==
    SelectSeq(tr, LAMBDA e : \/ e.op = "spi_write"
                             \/ (e.op = "write" /\ e.pin \in {18, 19}))

\* C4: a successful open emits the reset pulse (high, low, high) and then the
\* fixed command/payload sequence exactly and in order, every command byte
\* after the D/C line was set low and every payload after it was set high;
\* the only panel traffic that follows is the initial rotation.
C4_InitSequenceExact ==
    OpenSucceeded =>
        LET t == PanelTraffic(trace)
            n == Len(ResetPulse \o Framed(InitTable))
        IN  /\ Len(t) = n + 4
            /\ SubSeq(t, 1, n) = ResetPulse \o Framed(InitTable)

C4_Witness ==
    /\ OpenSucceeded
    /\ Len(PanelTraffic(trace)) = 63
    /\ FirstIndex(trace, PiSpiWrite(<<225>>)) > FirstIndex(trace, PiSpiWrite(<<224>>))
    /\ FirstIndex(trace, PiSpiWrite(<<224>>)) > 0

BacklightOnAt(tr) == FirstIndex(tr, PiWrite(backlight_pin, 1))

DisplayOnAt(tr) == FirstIndex(tr, PiSpiWrite(<<CMD_DISPON>>))

RotationAt(tr) == FirstIndex(tr, PiSpiWrite(<<CMD_MADCTL>>))

\* C5 as stated: in a successful open the register initialization completes,
\* then the initial rotation (0x36 and its byte) is written, then the
\* backlight is driven high.
C5_BacklightAfterRotation ==
    OpenSucceeded =>
        /\ 0 < DisplayOnAt(trace)
        /\ DisplayOnAt(trace) < RotationAt(trace)
        /\ RotationAt(trace) + 2 < BacklightOnAt(trace)

\* C5 amended: in a successful open the register initialization completes
\* (display-on written), then the backlight is driven high, exactly once, then
\* the initial rotation (0x36 and its configuration byte) is written.
C5_BacklightBeforeRotation ==
    OpenSucceeded =>
        /\ 0 < DisplayOnAt(trace)
        /\ DisplayOnAt(trace) < BacklightOnAt(trace)
        /\ BacklightOnAt(trace) < RotationAt(trace)
        /\ Occurrences(trace, PiWrite(backlight_pin, 1)) = 1
        /\ RotationAt(trace) + 2 = Len(trace)
        /\ trace[Len(trace)] = PiSpiWrite(<<MadctlByte(_rotation)>>)

C5_Witness ==
    /\ OpenSucceeded
    /\ _rotation = 90
    /\ gpio[backlight_pin] = 1
    /\ BacklightOnAt(trace) > 0
    /\ RotationAt(trace) > BacklightOnAt(trace)

\* C6: close() after an open that failed because the daemon was not connected
\* or because spi_open returned a negative handle raises nothing and issues
\* no spi_close.
C6_CloseAfterFailedOpenQuiet ==
    (pc = "closed_after_failed_open" /\ open_fault \in {"not_connected", "spi_open_negative"})
        => /\ exc = "none"
           /\ \A i \in 1..Len(trace) : trace[i].op # "spi_close"

\* C7: a chunk whose bus write fails during write_pixels is attempted once
\* more, at the same offset, before the error is surfaced.
C7_FailedChunkRetriedOnce ==
    lastOp = "write_pixels" =>
        \A i \in 1..Len(trace) :
            (trace[i].op = "spi_fault" /\ (i = 1 \/ trace[i - 1].op # "spi_fault"))
                => /\ i < Len(trace)
                   /\ trace[i + 1].op \in {"spi_write", "spi_fault"}
                   /\ trace[i + 1].data = trace[i].data

RECURSIVE JoinData(_)
JoinData(tr) == IF tr = <<>> THEN <<>> ELSE Head(tr).data \o JoinData(Tail(tr))

\* C8: a write_pixels that completes sets the D/C line high exactly once,
\* before the first bus write, then issues bus writes of at most 4096 bytes
\* each whose concatenation, in order, is the input byte sequence.
C8_PixelStreamExact ==
    (lastOp = "write_pixels" /\ pc = "body") =>
        /\ Len(trace) >= 1
        /\ trace[1] = [op |-> "write", pin |-> 18, level |-> 1, data |-> <<>>]
        /\ \A i \in 2..Len(trace) :
               /\ trace[i].op = "spi_write"
               /\ Len(trace[i].data) <= 4096
        /\ JoinData(Tail(trace)) = args[1]

\* an input of exactly two chunks went out as two bus writes
C8_Witness ==
    /\ lastOp = "write_pixels" /\ pc = "body"
    /\ Len(args[1]) = 8192
    /\ Len(trace) = 3
    /\ Len(trace[3].data) = 4096

\* C9: a set_window that completes emits 0x2A with the column pair, 0x2B with
\* the row pair and 0x2C, in this order, commands with the D/C line low and
\* payloads with it high; each coordinate is two bytes, high byte first;
\* set_window(0, 0, 9, 9) emits [0, 0, 0, 9] twice.
C9_WindowBytes ==
    (lastOp = "set_window" /\ pc = "body") =>
        /\ Len(trace) = 10
        /\ \A i \in {1, 5, 9} : trace[i] = [op |-> "write", pin |-> 18, level |-> 0, data |-> <<>>]
        /\ \A i \in {3, 7} : trace[i] = [op |-> "write", pin |-> 18, level |-> 1, data |-> <<>>]
        /\ \A i \in {2, 4, 6, 8, 10} : trace[i].op = "spi_write"
        /\ trace[2].data = <<42>> /\ trace[6].data = <<43>> /\ trace[10].data = <<44>>
        /\ \A i \in {4, 8} :
               /\ Len(trace[i].data) = 4
               /\ \A j \in 1..4 : trace[i].data[j] \in 0..255
        /\ trace[4].data[1] * 256 + trace[4].data[2] = args[1]
        /\ trace[4].data[3] * 256 + trace[4].data[4] = args[3]
        /\ trace[8].data[1] * 256 + trace[8].data[2] = args[2]
        /\ trace[8].data[3] * 256 + trace[8].data[4] = args[4]
        /\ args = <<0, 0, 9, 9>> => (trace[4].data = <<0, 0, 0, 9>> /\ trace[8].data = <<0, 0, 0, 9>>)

C9_Witness ==
    /\ lastOp = "set_window" /\ pc = "body"
    /\ args = <<0, 0, 9, 9>>
    /\ Len(trace) = 10

\* the 16-bit value of the claim, by arithmetic: top five bits of red, top six
\* of green, top five of blue
Rgb565(p) == (p[1] \div 8) * 2048 + (p[2] \div 4) * 32 + (p[3] \div 8)

\* row-major, two bytes a pixel, high byte first
ExpectedBytes(image) ==
    [i \in 1..(2 * Len(image) * Len(image[1])) |->
        LET k == (i - 1) \div 2
            p == image[(k \div Len(image[1])) + 1][(k % Len(image[1])) + 1]
        IN  IF i % 2 = 1 THEN Rgb565(p) \div 256 ELSE Rgb565(p) % 256]

\* C10: the encoding of a block is, pixel by pixel in row-major order, the
\* 16-bit value ((r & 0xF8) << 8) | ((g & 0xFC) << 3) | (b >> 3), high byte
\* first; the bulk path and the scalar path give the same bytes.
C10_CodecPathsAgree ==
    /\ out_bulk # <<>> => out_bulk = ExpectedBytes(img)
    /\ out_scalar # <<>> => out_scalar = ExpectedBytes(img)
    /\ (out_bulk # <<>> /\ out_scalar # <<>>) => out_bulk = out_scalar

\* a two-row block with both encodings computed
C10_Witness ==
    /\ Len(img) = 2 /\ Len(img[1]) = 2
    /\ Len(out_bulk) = 8 /\ Len(out_scalar) = 8
    /\ out_bulk = out_scalar

\* the ball lies within [R, W - R] x [R, H - R] of the panel it moves on
InBounds(b) ==
    /\ b.radius * Px <= b.x /\ b.x <= (width - b.radius) * Px
    /\ b.radius * Px <= b.y /\ b.y <= (height - b.radius) * Px

\* where the move of the latest update_position took the ball before any wall
\* test, and whether it then touches a vertical or a horizontal wall
MovedX == ball_before.x + ball_before.speed_x * args[1]

MovedY == ball_before.y + ball_before.speed_y * args[1]

ContactX ==
    \/ MovedX - ball_before.radius * Px < 0
    \/ MovedX + ball_before.radius * Px >= width * Px

ContactY ==
    \/ MovedY - ball_before.radius * Px < 0
    \/ MovedY + ball_before.radius * Px >= height * Px

\* an update turns speed_x round once (same magnitude) exactly when the ball
\* touches a vertical wall, and speed_y exactly when it touches a horizontal one
BouncesOnce ==
    lastOp = "update_position" =>
        /\ ball.speed_x = IF ContactX THEN -ball_before.speed_x ELSE ball_before.speed_x
        /\ ball.speed_y = IF ContactY THEN -ball_before.speed_y ELSE ball_before.speed_y

\* C11 (as stated): for a ball of radius R on a W x H screen, started at any
\* position within [R, W-R] x [R, H-R] with any velocity, the position stays
\* within [R, W-R] x [R, H-R] after any number of updates with any delta
\* times, and an update in which the ball touches a vertical (horizontal) wall
\* inverts speed_x (speed_y) exactly once, keeping its magnitude and leaving
\* the other component alone.
C11_BallStaysInBounds ==
    stage # "idle" => (InBounds(ball) /\ BouncesOnce)

\* the screen is wider and taller than the ball's diameter
BallFits == width > 2 * ball.radius /\ height > 2 * ball.radius

\* C11 (amended): the same, for a screen wider and taller than the ball's
\* diameter (W > 2R and H > 2R).
C11_FittingBallStaysInBounds ==
    (stage # "idle" /\ BallFits) => (InBounds(ball) /\ BouncesOnce)

\* a fitting ball has just been put back from the right wall, its speed_x
\* turned round and its speed_y kept
C11_Witness ==
    /\ lastOp = "update_position"
    /\ BallFits
    /\ ContactX /\ ~ContactY
    /\ MovedX > (width - ball.radius) * Px
    /\ ball.x = (width - ball.radius - 1) * Px
    /\ ball_before.speed_x > 0 /\ ball.speed_x = -ball_before.speed_x
    /\ ball.speed_y = ball_before.speed_y /\ ball.speed_y # 0

\* the inclusive pixel extent a ball of radius r is painted over, from its box
PaintedExtent(bbox, r) == <<bbox[1], bbox[2], bbox[1] + 2 * r, bbox[2] + 2 * r>>

\* Ball.draw has returned: ball_before is the ball it was called on, ball the
\* one it leaves, calls[1] its set_window call
DrawReturned == lastOp = "draw" /\ exc = "none" /\ Len(calls) = 2

\* the extent painted in this frame joined with the one of the frame before
UnionExtent ==
    LET cur == PaintedExtent(ball.prev_bbox, ball.radius)
        old == IF ball_before.prev_bbox = None THEN cur
               ELSE PaintedExtent(ball_before.prev_bbox, ball.radius)
    IN  <<Min(cur[1], old[1]), Min(cur[2], old[2]), Max(cur[3], old[3]), Max(cur[4], old[4])>>

\* C12: the inclusive window Ball.draw passes to set_window covers the previous
\* and the current painted extents (bbox[0] .. bbox[0] + 2 * radius on each
\* axis) and one further pixel on each of the four sides wherever that pixel
\* lies inside the panel.
C12_RegionHasMargin ==
    DrawReturned =>
        /\ calls[1].args[1] <= Max(0, UnionExtent[1] - 1)
        /\ calls[1].args[2] <= Max(0, UnionExtent[2] - 1)
        /\ calls[1].args[3] >= Min(width - 1, UnionExtent[3] + 1)
        /\ calls[1].args[4] >= Min(height - 1, UnionExtent[4] + 1)

\* C13: for every frame of a ball kept in bounds by update_position, the
\* window Ball.draw passes to set_window has 0 <= x0 <= x1 <= width - 1 and
\* 0 <= y0 <= y1 <= height - 1, first frame and frames at an edge or in a
\* corner included.
C13_WindowInsidePanel ==
    (lastOp = "draw" /\ calls # <<>>) =>
        /\ 0 <= calls[1].args[1] /\ calls[1].args[1] <= calls[1].args[3]
        /\ calls[1].args[3] <= width - 1
        /\ 0 <= calls[1].args[2] /\ calls[1].args[2] <= calls[1].args[4]
        /\ calls[1].args[4] <= height - 1

\* the first frame of a ball that sits in the top left corner
C13_Witness ==
    /\ DrawReturned
    /\ ball_before.prev_bbox = None
    /\ ball.x = ball.radius * Px /\ ball.y = ball.radius * Px
    /\ calls[1].args[1] = 0 /\ calls[1].args[2] = 0
    /\ calls[1].args[3] = 2 * ball.radius /\ calls[1].args[4] = 2 * ball.radius

\* rectangle outer contains rectangle inner
Contains(outer, inner) ==
    /\ outer[1] <= inner[1] /\ outer[2] <= inner[2]
    /\ outer[3] >= inner[3] /\ outer[4] >= inner[4]

\* C14: merge_bboxes(A, B) of two rectangles contains both and is the smallest
\* rectangle that does (coordinate-wise min of the top-left, max of the
\* bottom-right); merge_bboxes(None, B) is B; the operation is commutative and
\* idempotent.
C14_MergeIsLeastCover ==
    merge_done =>
        /\ (bbox1 # None /\ bbox2 # None) =>
              /\ Contains(merged, bbox1) /\ Contains(merged, bbox2)
              /\ \A r \in Rectangles :
                    (Contains(r, bbox1) /\ Contains(r, bbox2)) => Contains(r, merged)
        /\ bbox1 = None => merged = bbox2
        /\ merged = merge_bboxes(bbox2, bbox1)
        /\ bbox1 = bbox2 => merged = bbox1

\* two overlapping rectangles, neither containing the other, have been merged
C14_Witness ==
    /\ merge_done
    /\ bbox1 = <<0, 1, 1, 2>> /\ bbox2 = <<1, 0, 2, 1>>
    /\ merged = <<0, 0, 2, 2>>

\* C15: every iteration of the frame loop sleeps exactly target_interval -
\* elapsed when that is positive and does not sleep otherwise; sleep is never
\* requested with a zero or negative duration (a 1/30 s target with 10 ms of
\* processing sleeps about 23.3 ms).
C15_SleepsTheRemainder ==
    lastOp = "pace" =>
        /\ elapsed_time * TARGET_FPS < TicksPerSecond =>
              (Len(slept) = 1 /\ (slept[1] + elapsed_time) * TARGET_FPS = TicksPerSecond)
        /\ elapsed_time * TARGET_FPS >= TicksPerSecond => slept = <<>>
        /\ \A i \in 1..Len(slept) : slept[i] > 0
        /\ elapsed_time * 100 = TicksPerSecond =>
              (233 * TicksPerSecond <= slept[1] * 10000 /\ slept[1] * 10000 <= 234 * TicksPerSecond)

\* an iteration that took 10 ms has asked for the rest of the 1/30 s
C15_Witness ==
    /\ lastOp = "pace"
    /\ elapsed_time * 100 = TicksPerSecond
    /\ Len(slept) = 1
    /\ sleep_duration = slept[1]

\* the panel pixels of an inclusive extent
PanelPixels(e) ==
    {q \in Pixels(e[1], e[2], e[3], e[4]) : q[1] \in 0..(width - 1) /\ q[2] \in 0..(height - 1)}

\* C17: after every Ball.draw call prev_bbox is the box just painted, so the
\* region sent in a frame contains every pixel the ball was painted on in the
\* frame before: no panel pixel outside the ball's current painted extent
\* still shows ball content from an earlier frame.
C17_NoStaleBallPixels ==
    stage # "idle" =>
        /\ ball.prev_bbox = None => panel_ball = {}
        /\ ball.prev_bbox # None =>
              panel_ball \subseteq PanelPixels(PaintedExtent(ball.prev_bbox, ball.radius))
        /\ DrawReturned =>
              /\ panel_ball = PanelPixels(PaintedExtent(ball.prev_bbox, ball.radius))
              /\ ball.prev_bbox[1] * Px <= ball.x - ball.radius * Px
              /\ ball.x - ball.radius * Px < (ball.prev_bbox[1] + 1) * Px
              /\ ball.prev_bbox[2] * Px <= ball.y - ball.radius * Px
              /\ ball.y - ball.radius * Px < (ball.prev_bbox[2] + 1) * Px
              /\ ball.prev_bbox[3] = ball.prev_bbox[1] + 2 * ball.radius
              /\ ball.prev_bbox[4] = ball.prev_bbox[2] + 2 * ball.radius

\* a frame in which the ball has moved right and down by a pixel: the pixels
\* it has left show the background again
C17_Witness ==
    /\ DrawReturned
    /\ BallFits
    /\ ball_before.prev_bbox # None
    /\ ball.prev_bbox[1] = ball_before.prev_bbox[1] + 1
    /\ ball.prev_bbox[2] = ball_before.prev_bbox[2] + 1
    /\ <<ball_before.prev_bbox[1], ball_before.prev_bbox[2]>> \notin panel_ball
    /\ <<ball.prev_bbox[3], ball.prev_bbox[4]>> \in panel_ball

\* high and low byte of a coordinate
Hi(v) == v \div 256

Lo(v) == v % 256

\* C18: every write_pixels call made by display, Ball.draw and
\* FpsCounter.update_and_draw comes right after a set_window(x0, y0, x1, y1)
\* call, with no other bus traffic in between, and carries exactly
\* 2 * (x1 - x0 + 1) * (y1 - y0 + 1) bytes.
C18_WindowThenPixels ==
    (lastOp \in {"display", "draw", "update_and_draw"} /\ stage # "idle") =>
        /\ \A i \in 1..Len(calls) :
              calls[i].name = "write_pixels" => (i > 1 /\ calls[i - 1].name = "set_window")
        /\ calls # <<>> =>
              LET w == calls[1].args
                  bytes == calls[2].args[1]
              IN  /\ Len(calls) = 2
                  /\ calls[1].name = "set_window" /\ calls[2].name = "write_pixels"
                  /\ Len(bytes) = 2 * (w[3] - w[1] + 1) * (w[4] - w[2] + 1)
                  /\ trace = <<PiWrite(18, 0), PiSpiWrite(<<42>>), PiWrite(18, 1),
                               PiSpiWrite(<<Hi(w[1]), Lo(w[1]), Hi(w[3]), Lo(w[3])>>),
                               PiWrite(18, 0), PiSpiWrite(<<43>>), PiWrite(18, 1),
                               PiSpiWrite(<<Hi(w[2]), Lo(w[2]), Hi(w[4]), Lo(w[4])>>),
                               PiWrite(18, 0), PiSpiWrite(<<44>>),
                               PiWrite(18, 1), PiSpiWrite(bytes)>>
        /\ calls = <<>> => trace = <<>>

\* the FPS box has been sent: 3 x 3 pixels at (1, 1)
C18_Witness ==
    /\ lastOp = "update_and_draw"
    /\ Len(calls) = 2
    /\ calls[1].args = <<1, 1, 3, 3>>
    /\ Len(calls[2].args[1]) = 18

\* C16: a set_rotation(r) that returns, r one of 0, 90, 180, 270, puts exactly
\* this on the bus: the command byte 0x36 with the D/C line low, then one data
\* byte with the D/C line high, 0x00, 0x60, 0xC0, 0xA0 respectively; nothing else.
C16_RotationTraffic ==
    (lastOp = "set_rotation" /\ exc = "none") =>
        \E r \in {<<0, 0>>, <<90, 96>>, <<180, 192>>, <<270, 160>>} :
            /\ args = <<r[1]>>
            /\ trace = <<PiWrite(18, 0), PiSpiWrite(<<54>>),
                         PiWrite(18, 1), PiSpiWrite(<<r[2]>>)>>

\* set_rotation(270) has returned
C16_Witness ==
    /\ lastOp = "set_rotation" /\ exc = "none"
    /\ args = <<270>>
    /\ Len(trace) = 4
    /\ pre.rotation = 90

\* the size that goes with a stored rotation, and a buffer of that size
DimensionsConsistent ==
    /\ _rotation \in {0, 90, 180, 270}
    /\ <<width, height>> = IF _rotation \in {90, 270}
                           THEN <<_native_height, _native_width>>
                           ELSE <<_native_width, _native_height>>
    /\ Len(_buffer) = 2 * width * height

\* C19: when set_rotation raises ValueError for an invalid value, width,
\* height, the stored rotation and the frame buffer are what they were before
\* the call, and the size still goes with the stored rotation.
C19_InvalidRotationKeepsState ==
    (lastOp = "set_rotation" /\ exc = "ValueError") =>
        /\ width = pre.width
        /\ height = pre.height
        /\ _rotation = pre.rotation
        /\ _buffer = pre.buffer
        /\ DimensionsConsistent

\* set_rotation(45) has raised on a driver rotated to 180 beforehand
C19_Witness ==
    /\ lastOp = "set_rotation" /\ exc = "ValueError"
    /\ args = <<45>>
    /\ pre.rotation = 180
    /\ Len(pre.buffer) > 0

====
